---- MODULE Spec2Model ----
(***************************************************************************)
(* Model of opensfm/commands/undistort.py: the undistort command that      *)
(* rewrites a reconstruction with pinhole cameras, splits panoramas into   *)
(* six perspective views, projects the panorama tracks onto the views and  *)
(* resamples the images, masks and segmentations of every shot.            *)
(*                                                                         *)
(* Numbers are exact: a real is a pair <<n, d>> meaning n/d, angles are    *)
(* counted in quarter turns (the code only uses multiples of pi/2), and a  *)
(* panorama observation is stored as the direction its equirectangular     *)
(* coordinate looks at.  A string id is a sequence of tokens, so that      *)
(* formatting an id is concatenation.                                      *)
(***************************************************************************)
EXTENDS Integers, Sequences, FiniteSets, TLC

\* Bounds of the model.
NumShots == 2
NumTracks == 2
MaxCoord == 2

\* data.config['depthmap_resolution'], the width of a panorama sub-view.
DepthmapResolution == 640

VARIABLES
    pc,                 \* position of Command.run / undistort_reconstruction
    hasReconstruction,  \* whether data.load_reconstruction() returned any
    reconstruction,     \* reconstructions[0], the input
    graph0,             \* the track graph as data.load_tracks_graph() gave it
    graph,              \* the track graph being transformed
    urec,               \* the undistorted reconstruction
    undistorted_shots,  \* shot id -> sequence of undistorted shots
    shotIdx,            \* shots of the pass already handled
    subIdx,             \* sub-shots of the current panorama already handled
    savedReconstruction,\* what save_undistorted_reconstruction received
    arguments,          \* the tasks handed to parallel_map
    taskDone,           \* which tasks have run
    loaded,             \* per task, which rasters the loads returned
    saved,              \* the save_undistorted_* calls made so far
    savedGraph,         \* what save_undistorted_tracks_graph received
    error               \* the exception that ended the run, or "none"

vars == <<pc, hasReconstruction, reconstruction, graph0, graph, urec,
          undistorted_shots, shotIdx, subIdx, savedReconstruction, arguments,
          taskDone, loaded, saved, savedGraph, error>>

-----------------------------------------------------------------------------
\* Exact arithmetic.

Rat(n, d) == <<n, d>>

RatOfInt(n) == <<n, 1>>

RatAdd(a, b) == <<a[1] * b[2] + b[1] * a[2], a[2] * b[2]>>

RatMul(a, b) == <<a[1] * b[1], a[2] * b[2]>>

\* a / b for reals given as pairs, keeping the denominator positive.
RatDiv(a, b) ==
    IF b[1] < 0 THEN <<(0 - a[1]) * b[2], a[2] * (0 - b[1])>>
    ELSE <<a[1] * b[2], a[2] * b[1]>>

\* a < b, for positive denominators.
RatLess(a, b) == a[1] * b[2] < b[1] * a[2]

Half == Rat(1, 2)

MinusHalf == Rat(-1, 2)

\* cos and sin of q quarter turns.
Cos4(q) == CASE q % 4 = 0 -> 1 [] q % 4 = 1 -> 0 [] q % 4 = 2 -> -1 [] OTHER -> 0

Sin4(q) == CASE q % 4 = 0 -> 0 [] q % 4 = 1 -> 1 [] q % 4 = 2 -> 0 [] OTHER -> -1

Identity3 == <<<<1, 0, 0>>, <<0, 1, 0>>, <<0, 0, 1>>>>

\* np.dot of two 3x3 matrices.
Dot(A, B) ==
    [i \in 1..3 |-> [j \in 1..3 |->
        A[i][1] * B[1][j] + A[i][2] * B[2][j] + A[i][3] * B[3][j]]]

\* M.T
Transpose(M) == [i \in 1..3 |-> [j \in 1..3 |-> M[j][i]]]

\* np.dot(v, M) of a vector and a matrix.
VecDot(v, M) ==
    [j \in 1..3 |-> v[1] * M[1][j] + v[2] * M[2][j] + v[3] * M[3][j]]

\* tf.rotation_matrix(q * pi / 2, direction)[:3, :3] for a unit axis.
RotationMatrix(q, direction) ==
    LET cosa == Cos4(q)
        sina == Sin4(q)
        d == direction
        skew == <<<<0, 0 - d[3] * sina, d[2] * sina>>,
                  <<d[3] * sina, 0, 0 - d[1] * sina>>,
                  <<0 - d[2] * sina, d[1] * sina, 0>>>>
    IN  [i \in 1..3 |-> [j \in 1..3 |->
            (IF i = j THEN cosa ELSE 0) + d[i] * d[j] * (1 - cosa) + skew[i][j]]]

-----------------------------------------------------------------------------
\* Ids.

ShotId(i) == <<"shot", i>>

TrackId(j) == <<"track", j>>

CameraId(i) == <<"camera", i>>

\* '{}_perspective_view_{}'.format(id, name)
SubshotId(id, name) == id \o <<"perspective_view", name>>

-----------------------------------------------------------------------------
\* Cameras, poses, shots (opensfm.types).

Camera(id, projection_type, focal, focal_y, k1, k2) ==
    [id |-> id, projection_type |-> projection_type, width |-> 4, height |-> 3,
     focal |-> focal, focal_y |-> focal_y, k1 |-> k1, k2 |-> k2]

\* types.PerspectiveCamera() with the fields the callers assign.
PerspectiveCamera(id, width, height, focal, k1, k2) ==
    [id |-> id, projection_type |-> "perspective", width |-> width,
     height |-> height, focal |-> focal, focal_y |-> focal, k1 |-> k1, k2 |-> k2]

Pose(rotation, origin) == [rotation |-> rotation, origin |-> origin]

Shot(id, camera, pose, metadata) ==
    [id |-> id, camera |-> camera, pose |-> pose, metadata |-> metadata]

\* SphericalCamera.pixel_bearing: the direction the observation looks at.
PixelBearing(camera, feature) == feature

\* PerspectiveCamera.project
Project(camera, point) ==
    LET xn == Rat(point[1], point[3])
        yn == Rat(point[2], point[3])
        r2 == RatAdd(RatMul(xn, xn), RatMul(yn, yn))
        distortion ==
            RatAdd(RatOfInt(1),
                   RatMul(r2, RatAdd(RatOfInt(camera.k1),
                                     RatMul(RatOfInt(camera.k2), r2))))
    IN  <<RatMul(RatMul(camera.focal, distortion), xn),
          RatMul(RatMul(camera.focal, distortion), yn)>>

\* dict assignment d[k] = v
Put(d, k, v) == [x \in (DOMAIN d) \cup {k} |-> IF x = k THEN v ELSE d[x]]

EmptyDict == [x \in {} |-> 0]

\* Reconstruction.add_camera
AddCamera(rec, camera) == [rec EXCEPT !.cameras = Put(@, camera.id, camera)]

\* Reconstruction.add_shot
AddShot(rec, shot) == [rec EXCEPT !.shots = Put(@, shot.id, shot)]

-----------------------------------------------------------------------------
\* Camera Model Converter.

perspective_camera_from_brown(brown) ==
    PerspectiveCamera(brown.id, brown.width, brown.height,
                      RatDiv(RatAdd(brown.focal, brown.focal_y), RatOfInt(2)),
                      0, 0)

perspective_camera_from_fisheye(fisheye) ==
    PerspectiveCamera(fisheye.id, fisheye.width, fisheye.height,
                      fisheye.focal, 0, 0)

-----------------------------------------------------------------------------
\* Panorama Splitter.

names == <<"front", "left", "back", "right", "top", "bottom">>

\* Top and bottom turned the same way.
rotations_same_sign ==
    <<RotationMatrix(0, <<0, 1, 0>>),
      RotationMatrix(-1, <<0, 1, 0>>),
      RotationMatrix(-2, <<0, 1, 0>>),
      RotationMatrix(-3, <<0, 1, 0>>),
      RotationMatrix(-1, <<1, 0, 0>>),
      RotationMatrix(-1, <<1, 0, 0>>)>>

rotations ==
    <<RotationMatrix(0, <<0, 1, 0>>),
      RotationMatrix(-1, <<0, 1, 0>>),
      RotationMatrix(-2, <<0, 1, 0>>),
      RotationMatrix(-3, <<0, 1, 0>>),
      RotationMatrix(-1, <<1, 0, 0>>),
      RotationMatrix(1, <<1, 0, 0>>)>>

PanoramaCamera(width) ==
    PerspectiveCamera(<<"perspective_panorama_camera">>, width, width, Half, 0, 0)

\* The views named in the reverse of the order of their rotations.
perspective_views_of_a_panorama_reversed(spherical_shot, width) ==
    [i \in 1..Len(names) |->
        Shot(SubshotId(spherical_shot.id, names[Len(names) + 1 - i]),
             PanoramaCamera(width),
             Pose(Dot(rotations[i], spherical_shot.pose.rotation),
                  spherical_shot.pose.origin),
             "none")]

perspective_views_of_a_panorama(spherical_shot, width) ==
    [i \in 1..Len(names) |->
        Shot(SubshotId(spherical_shot.id, names[i]),
             PanoramaCamera(width),
             Pose(Dot(rotations[i], spherical_shot.pose.rotation),
                  spherical_shot.pose.origin),
             "none")]

-----------------------------------------------------------------------------
\* The track graph (a networkx Graph): a set of nodes and attributed edges.

Neighbors(g, n) ==
    {e[2] : e \in {x \in DOMAIN g.edges : x[1] = n}} \cup
    {e[1] : e \in {x \in DOMAIN g.edges : x[2] = n}}

\* graph[u][v]
EdgeData(g, u, v) ==
    IF <<u, v>> \in DOMAIN g.edges THEN g.edges[<<u, v>>] ELSE g.edges[<<v, u>>]

\* graph.add_node(n)
AddNode(g, n) == [g EXCEPT !.nodes = @ \cup {n}]

\* graph.add_edge(u, v, **data)
AddEdge(g, u, v, data) ==
    [nodes |-> g.nodes \cup {u, v},
     edges |-> IF <<v, u>> \in DOMAIN g.edges
               THEN Put(g.edges, <<v, u>>, data)
               ELSE Put(g.edges, <<u, v>>, data)]

-----------------------------------------------------------------------------
\* Track Graph Projector.

\* The iteration without the test of the upper bound of the first coordinate.
SubshotTrackStep_no_upper_check(g, panoshot, perspectiveshot, track) ==
    LET edge == EdgeData(g, panoshot.id, track)
        bearing == PixelBearing(panoshot.camera, edge.feature)
        rotation == Dot(perspectiveshot.pose.rotation,
                        Transpose(panoshot.pose.rotation))
        rotated_bearing == VecDot(bearing, Transpose(rotation))
        perspective_feature == Project(perspectiveshot.camera, rotated_bearing)
    IN  IF rotated_bearing[3] <= 0 THEN g
        ELSE IF \/ RatLess(perspective_feature[1], MinusHalf)
                \/ RatLess(perspective_feature[2], MinusHalf)
                \/ RatLess(Half, perspective_feature[2])
        THEN g
        ELSE AddEdge(g, perspectiveshot.id, track,
                     [feature |-> perspective_feature,
                      feature_id |-> edge.feature_id,
                      feature_color |-> edge.feature_color])

\* The iteration that moves the panorama's observation to the sub-shot.
SubshotTrackStep_moves_edge(g, panoshot, perspectiveshot, track) ==
    LET edge == EdgeData(g, panoshot.id, track)
        bearing == PixelBearing(panoshot.camera, edge.feature)
        rotation == Dot(perspectiveshot.pose.rotation,
                        Transpose(panoshot.pose.rotation))
        rotated_bearing == VecDot(bearing, Transpose(rotation))
        perspective_feature == Project(perspectiveshot.camera, rotated_bearing)
    IN  IF rotated_bearing[3] <= 0 THEN g
        ELSE IF \/ RatLess(perspective_feature[1], MinusHalf)
                \/ RatLess(Half, perspective_feature[1])
                \/ RatLess(perspective_feature[2], MinusHalf)
                \/ RatLess(Half, perspective_feature[2])
        THEN g
        ELSE AddEdge(AddEdge(g, panoshot.id, track,
                             [edge EXCEPT !.feature = perspective_feature]),
                     perspectiveshot.id, track,
                     [feature |-> perspective_feature,
                      feature_id |-> edge.feature_id,
                      feature_color |-> edge.feature_color])

\* One iteration of the loop of add_subshot_tracks over the panorama's tracks.
SubshotTrackStep(g, panoshot, perspectiveshot, track) ==
    LET edge == EdgeData(g, panoshot.id, track)
        feature == edge.feature
        bearing == PixelBearing(panoshot.camera, feature)
        rotation == Dot(perspectiveshot.pose.rotation,
                        Transpose(panoshot.pose.rotation))
        rotated_bearing == VecDot(bearing, Transpose(rotation))
        perspective_feature == Project(perspectiveshot.camera, rotated_bearing)
    IN  IF rotated_bearing[3] <= 0 THEN g
        ELSE IF \/ RatLess(perspective_feature[1], MinusHalf)
                \/ RatLess(Half, perspective_feature[1])
                \/ RatLess(perspective_feature[2], MinusHalf)
                \/ RatLess(Half, perspective_feature[2])
        THEN g
        ELSE AddEdge(g, perspectiveshot.id, track,
                     [feature |-> perspective_feature,
                      feature_id |-> edge.feature_id,
                      feature_color |-> edge.feature_color])

RECURSIVE SubshotTracksLoop(_, _, _, _)
SubshotTracksLoop(g, panoshot, perspectiveshot, tracks) ==
    IF tracks = {} THEN g
    ELSE LET track == CHOOSE t \in tracks : TRUE
         IN  SubshotTracksLoop(
                 SubshotTrackStep(g, panoshot, perspectiveshot, track),
                 panoshot, perspectiveshot, tracks \ {track})

\* add_subshot_tracks without its guard.
add_subshot_tracks_no_guard(g, panoshot, perspectiveshot) ==
    SubshotTracksLoop(AddNode(g, perspectiveshot.id), panoshot,
                      perspectiveshot, Neighbors(g, panoshot.id))

add_subshot_tracks(g, panoshot, perspectiveshot) ==
    IF panoshot.id \notin g.nodes THEN g
    ELSE SubshotTracksLoop(AddNode(g, perspectiveshot.id), panoshot,
                           perspectiveshot, Neighbors(g, panoshot.id))

-----------------------------------------------------------------------------
\* Batch Image Resampler.

LensKinds == {"perspective", "brown", "fisheye"}

PanoramaKinds == {"equirectangular", "spherical"}

\* The key of an output: a string id, or a Shot object used as the key.
StringKey(id) == <<"str">> \o id

ObjectKey(shot) == <<"Shot">> \o shot.id

\* undistort_image: the keys of the dict it returns, or the error it raises.
undistort_image(shot, undistorted, original) ==
    IF ~original THEN [keys |-> {}, raised |-> "none"]
    ELSE IF shot.camera.projection_type \in LensKinds
    THEN [keys |-> {StringKey(shot.id)}, raised |-> "none"]
    ELSE IF shot.camera.projection_type \in PanoramaKinds
    THEN [keys |-> {ObjectKey(undistorted[i]) : i \in 1..Len(undistorted)},
          raised |-> "none"]
    ELSE [keys |-> {}, raised |-> "NotImplementedError"]

Modalities == <<"image", "mask", "segmentation">>

\* undistort_image_and_masks: the save calls it makes, in the order image,
\* mask, segmentation, stopping at the first error.
RECURSIVE SaveCalls(_, _, _)
SaveCalls(argument, present, m) ==
    IF m > Len(Modalities) THEN [calls |-> {}, raised |-> "none"]
    ELSE IF ~present[m] THEN SaveCalls(argument, present, m + 1)
    ELSE LET res == undistort_image(argument.shot, argument.undistorted_shots,
                                    present[m])
             rest == SaveCalls(argument, present, m + 1)
         IN  IF res.raised # "none" THEN [calls |-> {}, raised |-> res.raised]
             ELSE [calls |-> {[modality |-> Modalities[m], key |-> k,
                               task |-> argument.shot.id] : k \in res.keys}
                             \cup rest.calls,
                   raised |-> rest.raised]

\* The task that returns at the first missing raster.
undistort_image_and_masks_stop_at_missing(argument, present) ==
    IF ~present[1] THEN [calls |-> {}, raised |-> "none"]
    ELSE SaveCalls(argument, present, 1)

undistort_image_and_masks(argument, present) == SaveCalls(argument, present, 1)

-----------------------------------------------------------------------------
\* Reconstruction Undistorter: the body of the loop over the shots.

\* The shot that replaces a brown or fisheye shot.
UndistortedLensShot(shot, camera) == Shot(shot.id, camera, shot.pose, shot.metadata)

\* Registers a shot and its camera in the undistorted reconstruction.
Register(rec, shot) == AddShot(AddCamera(rec, shot.camera), shot)

\* Every task given the mapping entry of the first shot.
BuildArguments_first_entry(rec, mapping) ==
    [i \in 1..Len(rec.shots) |->
        [shot |-> rec.shots[i], undistorted_shots |-> mapping[rec.shots[1].id]]]

\* for shot in reconstruction.shots.values(): arguments.append(...)
BuildArguments(rec, mapping) ==
    [i \in 1..Len(rec.shots) |->
        [shot |-> rec.shots[i], undistorted_shots |-> mapping[rec.shots[i].id]]]

-----------------------------------------------------------------------------
\* Inputs.

Tracks == 1..NumTracks

Coords == (0 - MaxCoord)..MaxCoord

\* The directions a panorama observation can look at.
Bearings == (Coords \X Coords \X Coords) \ {<<0, 0, 0>>}

PoseRotations ==
    {Identity3, RotationMatrix(1, <<0, 1, 0>>), RotationMatrix(1, <<1, 0, 0>>)}

NoObservation == <<>>

EmptyGraph == [nodes |-> {}, edges |-> EmptyDict]

EmptyReconstruction == [cameras |-> EmptyDict, shots |-> <<>>, points |-> {}]

\* The camera configurations of the input shots.
CameraConfigs ==
    {[projection_type |-> "perspective", k1 |-> 0],
     [projection_type |-> "perspective", k1 |-> 1],
     [projection_type |-> "brown", k1 |-> 1],
     [projection_type |-> "fisheye", k1 |-> 1],
     [projection_type |-> "equirectangular", k1 |-> 0],
     [projection_type |-> "spherical", k1 |-> 0],
     [projection_type |-> "dual", k1 |-> 0]}

InputCamera(i, cfg) ==
    Camera(CameraId(i), cfg.projection_type, RatOfInt(1),
           IF cfg.projection_type = "brown" THEN RatOfInt(2) ELSE RatOfInt(1),
           cfg.k1, 0)

InputShot(i, cfg, rotation) ==
    Shot(ShotId(i), InputCamera(i, cfg), Pose(rotation, <<i, 0, 0>>), "metadata")

\* The input reconstruction of n shots.
InputReconstruction(n, cfg, rotation) ==
    [cameras |-> [c \in {CameraId(i) : i \in 1..n} |->
                    InputCamera(c[2], cfg[c[2]])],
     shots |-> [i \in 1..n |-> InputShot(i, cfg[i], rotation[i])],
     points |-> {"point"}]

\* The input track graph: obs[i] is FALSE when shot i is no node of the
\* graph, and else gives the feature of each track shot i observes.
InputGraph(n, obs) ==
    LET observed == {<<i, j>> \in (1..n) \X Tracks :
                        obs[i].in_graph /\ obs[i].features[j] # NoObservation}
    IN  [nodes |-> {ShotId(i) : i \in {k \in 1..n : obs[k].in_graph}}
                   \cup {TrackId(e[2]) : e \in observed},
         edges |-> [e \in {<<ShotId(x[1]), TrackId(x[2])>> : x \in observed} |->
                      [feature |-> obs[e[1][2]].features[e[2][2]],
                       feature_id |-> 10 * e[1][2] + e[2][2],
                       feature_color |-> <<e[1][2], e[2][2], 0>>]]]

\* A seam direction for odd tracks, the optical axis for even ones.
SampleBearing(j) == <<j % 2, 0, 1>>

\* The observations of a shot in the runs of the whole command.
SampleObservations(cfg) ==
    IF cfg.projection_type \in PanoramaKinds
    THEN {[in_graph |-> TRUE, features |-> [j \in Tracks |-> SampleBearing(j)]]}
    ELSE {[in_graph |-> TRUE,
           features |-> [j \in Tracks |-> <<Rat(j, 4), Rat(0, 1)>>]]}

Start(rec, g, has) ==
    /\ pc = "run"
    /\ hasReconstruction = has
    /\ reconstruction = rec
    /\ graph0 = g
    /\ graph = g
    /\ urec = EmptyReconstruction
    /\ undistorted_shots = EmptyDict
    /\ shotIdx = 0
    /\ subIdx = 0
    /\ savedReconstruction = <<>>
    /\ arguments = <<>>
    /\ taskDone = <<>>
    /\ loaded = <<>>
    /\ saved = {}
    /\ savedGraph = <<>>
    /\ error = "none"

\* Any dataset of up to NumShots shots, or one without a reconstruction.
Init ==
    \/ Start(EmptyReconstruction, EmptyGraph, FALSE)
    \/ \E n \in 1..NumShots :
         \E cfg \in [1..n -> CameraConfigs] :
           \E obs \in [1..n -> UNION {SampleObservations(c) : c \in CameraConfigs}] :
             /\ \A i \in 1..n : obs[i] \in SampleObservations(cfg[i])
             /\ Start(InputReconstruction(n, cfg,
                                          [i \in 1..n |-> RotationMatrix(1, <<0, 0, 1>>)]),
                      InputGraph(n, obs), TRUE)

\* One panorama in any pose, that is no node of the graph or observes any
\* direction with its first track and a sample direction with the others.
InitTracks ==
    \E rotation \in PoseRotations :
      \E obs \in {[in_graph |-> FALSE, features |-> [j \in Tracks |-> NoObservation]]}
                 \cup {[in_graph |-> TRUE,
                        features |-> [j \in Tracks |->
                                        IF j = 1 THEN c[1]
                                        ELSE IF c[2][j] THEN SampleBearing(j)
                                        ELSE NoObservation]] :
                         c \in (Bearings \cup {NoObservation})
                               \X [Tracks \ {1} -> BOOLEAN]} :
        Start(InputReconstruction(1, <<[projection_type |-> "equirectangular",
                                         k1 |-> 0]>>, <<rotation>>),
              InputGraph(1, <<obs>>), TRUE)

-----------------------------------------------------------------------------
\* Command.run and Command.undistort_reconstruction.

Shots == reconstruction.shots

Run ==
    /\ pc = "run"
    /\ IF hasReconstruction
       THEN /\ urec' = [cameras |-> EmptyDict, shots |-> EmptyDict,
                        points |-> reconstruction.points]
            /\ undistorted_shots' = EmptyDict
            /\ pc' = "pass"
       ELSE /\ pc' = "save_tracks"
            /\ UNCHANGED <<urec, undistorted_shots>>
    /\ UNCHANGED <<hasReconstruction, reconstruction, graph0, graph, shotIdx,
                   subIdx, savedReconstruction, arguments, taskDone, loaded,
                   saved, savedGraph, error>>

PassStep ==
    /\ pc = "pass"
    /\ shotIdx < Len(Shots)
    /\ LET shot == Shots[shotIdx + 1]
           projection_type == shot.camera.projection_type
           subshots == perspective_views_of_a_panorama(shot, DepthmapResolution)
           ushot ==
               IF projection_type = "brown"
               THEN UndistortedLensShot(shot, perspective_camera_from_brown(shot.camera))
               ELSE UndistortedLensShot(shot, perspective_camera_from_fisheye(shot.camera))
       IN  IF projection_type = "perspective"
           THEN /\ urec' = Register(urec, shot)
                /\ undistorted_shots' = Put(undistorted_shots, shot.id, <<shot>>)
                /\ shotIdx' = shotIdx + 1
                /\ UNCHANGED <<graph, subIdx>>
           ELSE IF projection_type \in {"brown", "fisheye"}
           THEN /\ urec' = Register(urec, ushot)
                /\ undistorted_shots' = Put(undistorted_shots, shot.id, <<ushot>>)
                /\ shotIdx' = shotIdx + 1
                /\ UNCHANGED <<graph, subIdx>>
           ELSE IF projection_type \in PanoramaKinds
           THEN /\ urec' = Register(urec, subshots[subIdx + 1])
                /\ graph' = add_subshot_tracks(graph, shot, subshots[subIdx + 1])
                /\ IF subIdx + 1 = Len(subshots)
                   THEN /\ undistorted_shots' =
                               Put(undistorted_shots, shot.id, subshots)
                        /\ shotIdx' = shotIdx + 1
                        /\ subIdx' = 0
                   ELSE /\ subIdx' = subIdx + 1
                        /\ UNCHANGED <<undistorted_shots, shotIdx>>
           ELSE /\ shotIdx' = shotIdx + 1
                /\ UNCHANGED <<urec, undistorted_shots, graph, subIdx>>
    /\ UNCHANGED <<pc, hasReconstruction, reconstruction, graph0,
                   savedReconstruction, arguments, taskDone, loaded, saved,
                   savedGraph, error>>

SaveReconstruction ==
    /\ pc = "pass"
    /\ shotIdx = Len(Shots)
    /\ savedReconstruction' = <<urec>>
    /\ pc' = "arguments"
    /\ UNCHANGED <<hasReconstruction, reconstruction, graph0, graph, urec,
                   undistorted_shots, shotIdx, subIdx, arguments, taskDone,
                   loaded, saved, savedGraph, error>>

Dispatch ==
    /\ pc = "arguments"
    /\ IF \E i \in 1..Len(Shots) : Shots[i].id \notin DOMAIN undistorted_shots
       THEN /\ error' = "KeyError"
            /\ pc' = "failed"
            /\ UNCHANGED <<arguments, taskDone, loaded>>
       ELSE /\ arguments' = BuildArguments(reconstruction, undistorted_shots)
            /\ taskDone' = [i \in 1..Len(Shots) |-> FALSE]
            /\ loaded' = [i \in 1..Len(Shots) |-> <<>>]
            /\ pc' = "parallel_map"
            /\ UNCHANGED error
    /\ UNCHANGED <<hasReconstruction, reconstruction, graph0, graph, urec,
                   undistorted_shots, shotIdx, subIdx, savedReconstruction,
                   saved, savedGraph>>

Task ==
    /\ pc = "parallel_map"
    /\ \E i \in 1..Len(arguments) :
         \E present \in [1..Len(Modalities) -> BOOLEAN] :
           LET res == undistort_image_and_masks(arguments[i], present)
           IN  /\ ~taskDone[i]
               /\ taskDone' = [taskDone EXCEPT ![i] = TRUE]
               /\ loaded' = [loaded EXCEPT ![i] = present]
               /\ saved' = saved \cup res.calls
               /\ error' = IF res.raised # "none" THEN res.raised ELSE error
    /\ UNCHANGED <<pc, hasReconstruction, reconstruction, graph0, graph, urec,
                   undistorted_shots, shotIdx, subIdx, savedReconstruction,
                   arguments, savedGraph>>

Return ==
    /\ pc = "parallel_map"
    /\ \A i \in 1..Len(arguments) : taskDone[i]
    /\ pc' = "save_tracks"
    /\ UNCHANGED <<hasReconstruction, reconstruction, graph0, graph, urec,
                   undistorted_shots, shotIdx, subIdx, savedReconstruction,
                   arguments, taskDone, loaded, saved, savedGraph, error>>

SaveTracks ==
    /\ pc = "save_tracks"
    /\ savedGraph' = <<graph>>
    /\ pc' = "done"
    /\ UNCHANGED <<hasReconstruction, reconstruction, graph0, graph, urec,
                   undistorted_shots, shotIdx, subIdx, savedReconstruction,
                   arguments, taskDone, loaded, saved, error>>

Next ==
    \/ Run
    \/ PassStep
    \/ SaveReconstruction
    \/ Dispatch
    \/ Task
    \/ Return
    \/ SaveTracks

Spec == Init /\ [][Next]_vars

NextTracks ==
    \/ Run
    \/ PassStep

SpecTracks == InitTracks /\ [][NextTracks]_vars

-----------------------------------------------------------------------------
\* Properties.

RecognizedKinds == {"perspective", "brown", "fisheye", "equirectangular", "spherical"}

FaceOrder == <<"front", "left", "back", "right", "top", "bottom">>

KindOf(i) == Shots[i].camera.projection_type

IsLens(i) == KindOf(i) \in {"perspective", "brown", "fisheye"}

IsPanorama(i) == KindOf(i) \in {"equirectangular", "spherical"}

\* The pass over the shots has finished.
PassFinished == hasReconstruction /\ pc \notin {"run", "pass"}

\* undistort_reconstruction has returned.
Completed == hasReconstruction /\ pc \in {"save_tracks", "done"}

\* C1: once the pass has finished on a reconstruction whose shots all have a
\* recognized projection kind, the mapping has an entry for every original
\* shot: one undistorted shot with the original's id for a perspective, brown
\* or fisheye camera, six shots named {id}_perspective_view_{face} in the
\* order front, left, back, right, top, bottom for a panorama; and every shot
\* of every entry is registered in the undistorted reconstruction.
C1_MappingComplete ==
    (PassFinished /\ \A i \in 1..Len(Shots) : KindOf(i) \in RecognizedKinds) =>
        \A i \in 1..Len(Shots) :
            /\ Shots[i].id \in DOMAIN undistorted_shots
            /\ LET entry == undistorted_shots[Shots[i].id]
               IN  /\ IsLens(i) => Len(entry) = 1 /\ entry[1].id = Shots[i].id
                   /\ IsPanorama(i) =>
                        /\ Len(entry) = 6
                        /\ \A k \in 1..6 :
                             entry[k].id =
                               Shots[i].id \o <<"perspective_view", FaceOrder[k]>>
                   /\ \A k \in 1..Len(entry) :
                        /\ entry[k].id \in DOMAIN urec.shots
                        /\ urec.shots[entry[k].id] = entry[k]

C1_Witness ==
    /\ pc = "done"
    /\ \E i \in 1..Len(Shots) : IsLens(i)
    /\ \E i \in 1..Len(Shots) : IsPanorama(i) /\ Len(undistorted_shots[Shots[i].id]) = 6

\* C2: when the pass has gone over a shot whose projection kind is none of
\* the recognized ones, the run has failed with the unsupported-projection
\* error, the undistorted reconstruction was not saved and no task was
\* dispatched.
C2_UnsupportedFailsInPass ==
    (hasReconstruction /\ \E i \in 1..shotIdx : KindOf(i) \notin RecognizedKinds) =>
        /\ pc = "failed"
        /\ error = "NotImplementedError"
        /\ savedReconstruction = <<>>
        /\ arguments = <<>>

\* C4: after undistort_reconstruction completes, every camera registered in
\* the undistorted reconstruction and every camera of its shots is an ideal
\* pinhole camera: perspective with all distortion coefficients zero.
IdealPinhole(camera) ==
    camera.projection_type = "perspective" /\ camera.k1 = 0 /\ camera.k2 = 0

C4_OnlyIdealPinholeCameras ==
    Completed =>
        /\ \A c \in DOMAIN urec.cameras : IdealPinhole(urec.cameras[c])
        /\ \A x \in DOMAIN urec.shots : IdealPinhole(urec.shots[x].camera)

\* C5: every artifact a task saves is identified by the string id of an
\* undistorted shot of the mapping entry of the task's shot.
C5_ArtifactsKeyedByShotId ==
    \A c \in saved :
        \E i \in 1..Len(Shots) :
            /\ c.task = Shots[i].id
            /\ \E k \in 1..Len(undistorted_shots[Shots[i].id]) :
                 c.key = <<"str">> \o undistorted_shots[Shots[i].id][k].id

\* C6: for each modality on its own, a task whose source raster is absent
\* saves nothing of that modality and raises no error, and a task whose
\* raster is present saves one output per undistorted shot of its entry.
SavedBy(i, m) == {c \in saved : c.task = Shots[i].id /\ c.modality = m}

ModalityNames == <<"image", "mask", "segmentation">>

C6_MissingRasterSkipped ==
    /\ error \in {"none", "KeyError"}
    /\ \A i \in 1..Len(taskDone) : \A m \in 1..3 :
         IF taskDone[i] /\ loaded[i][m]
         THEN Cardinality(SavedBy(i, ModalityNames[m])) =
                Len(undistorted_shots[Shots[i].id])
         ELSE SavedBy(i, ModalityNames[m]) = {}

C6_Witness ==
    \E i \in 1..Len(taskDone) :
        /\ taskDone[i]
        /\ IsPanorama(i)
        /\ ~loaded[i][1]
        /\ loaded[i][2]
        /\ Cardinality(SavedBy(i, "mask")) = 6
        /\ SavedBy(i, "image") = {}

\* C10: tasks are dispatched only after the pass has finished and the
\* undistorted reconstruction was saved; the dispatch makes exactly one task
\* per original shot, with that shot's own mapping entry; and the track graph
\* is saved only after undistort_reconstruction has returned, or when no
\* reconstruction was loaded.
Dispatched == pc \in {"parallel_map", "save_tracks", "done"} /\ hasReconstruction

C10_Ordering ==
    /\ (arguments # <<>> \/ saved # {}) =>
         /\ shotIdx = Len(Shots)
         /\ savedReconstruction = <<urec>>
    /\ pc = "arguments" => savedReconstruction = <<urec>> /\ arguments = <<>>
    /\ ~Dispatched => arguments = <<>> /\ saved = {}
    /\ Dispatched =>
         /\ Len(arguments) = Len(Shots)
         /\ \A i \in 1..Len(Shots) :
              /\ arguments[i].shot = Shots[i]
              /\ arguments[i].undistorted_shots = undistorted_shots[Shots[i].id]
    /\ savedGraph # <<>> =>
         /\ pc = "done"
         /\ savedGraph = <<graph>>
         /\ hasReconstruction =>
              /\ savedReconstruction # <<>>
              /\ \A i \in 1..Len(Shots) : taskDone[i]
    /\ pc = "done" => savedGraph # <<>>

C10_Witness ==
    /\ pc = "done"
    /\ hasReconstruction
    /\ Len(arguments) = 2
    /\ arguments[1].undistorted_shots # arguments[2].undistorted_shots
    /\ savedGraph = <<graph>>

-----------------------------------------------------------------------------
\* Properties of the track projection, for the single panorama of SpecTracks.

Panorama == <<"shot", 1>>

Face(k) == Panorama \o <<"perspective_view", FaceOrder[k]>>

\* add_subshot_tracks has been called for face k.
Called(k) == pc = "pass" /\ (shotIdx = 1 \/ k <= subIdx)

Observed(j) == <<Panorama, <<"track", j>>>> \in DOMAIN graph0.edges

\* The direction the panorama observes track j in.
Direction(j) == graph0.edges[<<Panorama, <<"track", j>>>>].feature

\* A direction of the panorama's frame in the frame of face k: right, down
\* and forward components.
InFace(k, b) ==
    CASE k = 1 -> <<b[1], b[2], b[3]>>
      [] k = 2 -> <<0 - b[3], b[2], b[1]>>
      [] k = 3 -> <<0 - b[1], b[2], 0 - b[3]>>
      [] k = 4 -> <<b[3], b[2], 0 - b[1]>>
      [] k = 5 -> <<b[1], b[3], 0 - b[2]>>
      [] OTHER -> <<b[1], 0 - b[3], b[2]>>

\* Forward component positive, and both coordinates of the projection with
\* focal 1/2, r[1] / (2 r[3]) and r[2] / (2 r[3]), in [-1/2, 1/2].
InView(r) ==
    /\ r[3] > 0
    /\ 0 - r[3] <= r[1] /\ r[1] <= r[3]
    /\ 0 - r[3] <= r[2] /\ r[2] <= r[3]

HasEdge(k, j) == <<Face(k), <<"track", j>>>> \in DOMAIN graph.edges

\* C3: the edge (sub-shot, track) exists exactly when add_subshot_tracks was
\* called for the sub-shot of a panorama of the graph that observes the track
\* in a direction with positive forward component and both projected
\* coordinates in [-0.5, 0.5]; and every edge of a sub-shot carries that
\* projection, which lies in [-0.5, 0.5] in both coordinates.
C3_EdgeIffVisible ==
    \A k \in 1..6 : \A j \in Tracks :
        /\ HasEdge(k, j) <=>
             /\ Called(k)
             /\ Observed(j)
             /\ InView(InFace(k, Direction(j)))
        /\ HasEdge(k, j) =>
             LET f == graph.edges[<<Face(k), <<"track", j>>>>].feature
                 r == InFace(k, Direction(j))
             IN  /\ f[1][2] > 0 /\ f[2][2] > 0
                 /\ f[1][1] * 2 * r[3] = r[1] * f[1][2]
                 /\ f[2][1] * 2 * r[3] = r[2] * f[2][2]
                 /\ 0 - f[1][2] <= 2 * f[1][1] /\ 2 * f[1][1] <= f[1][2]
                 /\ 0 - f[2][2] <= 2 * f[2][1] /\ 2 * f[2][1] <= f[2][2]

\* An accepted observation, one rejected for lying behind a view and one
\* rejected for lying in front of a view but outside it.
C3_Witness ==
    /\ pc = "pass" /\ shotIdx = 1
    /\ Observed(1)
    /\ \E k \in 1..6 : HasEdge(k, 1)
    /\ \E k \in 1..6 : ~HasEdge(k, 1) /\ InFace(k, Direction(1))[3] <= 0
    /\ \E k \in 1..6 : /\ ~HasEdge(k, 1)
                       /\ InFace(k, Direction(1))[3] > 0
                       /\ InFace(k, Direction(1))[1] > InFace(k, Direction(1))[3]

\* C7: for a panorama that is no node of the track graph the calls of
\* add_subshot_tracks leave the graph as it was and raise no error; for a
\* panorama that is a node, the sub-shot of every call made is a node, also
\* when none of the panorama's observations is accepted.
C7_AbsentPanoramaLeavesGraph ==
    /\ error = "none"
    /\ Panorama \notin graph0.nodes => graph = graph0
    /\ Panorama \in graph0.nodes =>
         \A k \in 1..6 : Called(k) => Face(k) \in graph.nodes

C7_Witness ==
    /\ pc = "pass" /\ shotIdx = 1
    /\ Panorama \notin graph0.nodes
    /\ graph = graph0

\* The sub-shot of a panorama node that accepted no observation is a node.
C7_WitnessNode ==
    /\ pc = "pass" /\ subIdx = 3
    /\ Panorama \in graph0.nodes
    /\ Observed(1)
    /\ Face(3) \in graph.nodes
    /\ \A j \in Tracks : ~HasEdge(3, j)

Abs(x) == IF x < 0 THEN 0 - x ELSE x

Largest(b) == CHOOSE m \in {Abs(b[1]), Abs(b[2]), Abs(b[3])} :
                  \A c \in 1..3 : Abs(b[c]) <= m

\* The largest component is tied with another one.
OnSeam(b) == Cardinality({c \in 1..3 : Abs(b[c]) = Largest(b)}) > 1

Accepting(j) == {k \in 1..6 : HasEdge(k, j)}

\* C9: once the six sub-shots are done, every observation of the panorama has
\* an edge from at least one sub-shot, and from more than one only when its
\* direction lies on a face seam.
C9_FacesPartitionSphere ==
    (pc = "pass" /\ shotIdx = 1) =>
        \A j \in Tracks :
            Observed(j) =>
                /\ Accepting(j) # {}
                /\ Cardinality(Accepting(j)) > 1 => OnSeam(Direction(j))

\* An oblique direction off the seams accepted by one sub-shot only, next to
\* a seam direction accepted by several.
C9_Witness ==
    /\ pc = "pass" /\ shotIdx = 1
    /\ Observed(1)
    /\ ~OnSeam(Direction(1))
    /\ Cardinality({c \in 1..3 : Direction(1)[c] # 0}) = 3
    /\ Cardinality(Accepting(1)) = 1
    /\ reconstruction.shots[1].pose.rotation # Identity3

\* C8: every step keeps the nodes and edges of the track graph with their
\* coordinate, feature id and color; an edge it adds joins a sub-shot id that
\* was no node before to a track the panorama observes, with the feature id
\* and color of the panorama's edge to that track; and the input
\* reconstruction stays as it was.
IsSubshotOf(id, i) ==
    /\ IsPanorama(i)
    /\ \E k \in 1..6 : id = Shots[i].id \o <<"perspective_view", FaceOrder[k]>>

C8_GraphOnlyGrows ==
    [][/\ reconstruction' = reconstruction
       /\ graph.nodes \subseteq graph'.nodes
       /\ \A e \in DOMAIN graph.edges :
            e \in DOMAIN graph'.edges /\ graph'.edges[e] = graph.edges[e]
       /\ \A e \in (DOMAIN graph'.edges) \ (DOMAIN graph.edges) :
            \E i \in 1..Len(Shots) :
                /\ IsSubshotOf(e[1], i)
                /\ e[1] \notin graph0.nodes
                /\ e[2] \in graph.nodes
                /\ <<Shots[i].id, e[2]>> \in DOMAIN graph.edges
                /\ graph'.edges[e].feature_id =
                     graph.edges[<<Shots[i].id, e[2]>>].feature_id
                /\ graph'.edges[e].feature_color =
                     graph.edges[<<Shots[i].id, e[2]>>].feature_color]_vars

\* Sub-shot edges added next to the observations of a lens shot.
C8_Witness ==
    /\ pc = "done"
    /\ \E i \in 1..Len(Shots) :
         IsLens(i) /\ <<Shots[i].id, <<"track", 1>>>> \in DOMAIN graph.edges
    /\ (DOMAIN graph.edges) \ (DOMAIN graph0.edges) # {}
    /\ savedGraph = <<graph>>

====
